---- MODULE Spec2Model ----
(***************************************************************************)
(* Model of the health-live dashboard (pages/index.js): the Home component *)
(* fetches the raw ingested records once, and every render derives the     *)
(* normalized days, the baselines, the scores and the trend sequences from *)
(* the `entries` state.  The component holds two pieces of state, entries  *)
(* and loading; what it renders is a function of them.  The two API routes  *)
(* (api/hae/ingest and api/timeseries) are modelled as one request each    *)
(* against the health_metrics table, `store`.                              *)
(*                                                                         *)
(* JavaScript numbers are modelled as exact rationals p/q extended with    *)
(* NaN, +Infinity and -Infinity (binary rounding of doubles and the sign   *)
(* of zero are not modelled).  JavaScript strings are TLA+ strings.        *)
(***************************************************************************)
EXTENDS Integers, Sequences, FiniteSets, TLC

VARIABLES entries, loading, pc, arg, result, store, outcome

vars == <<entries, loading, pc, arg, result, store, outcome>>

(***************************************************************************)
(* Numbers                                                                 *)
(***************************************************************************)
Abs(i) == IF i < 0 THEN -i ELSE i

RECURSIVE GCD(_, _)
GCD(a, b) == IF b = 0 THEN a ELSE GCD(b, a % b)

NaN == [k |-> "nan", p |-> 0, q |-> 1]
PosInf == [k |-> "inf", p |-> 1, q |-> 1]
NegInf == [k |-> "inf", p |-> -1, q |-> 1]

\* the finite number p/q in lowest terms with a positive denominator
Fin(p, q) ==
  LET s == IF q < 0 THEN -1 ELSE 1
      g == GCD(Abs(p), Abs(q))
  IN  [k |-> "fin", p |-> (s * p) \div g, q |-> (s * q) \div g]

Int2Num(i) == Fin(i, 1)

IsNaN(a) == a.k = "nan"
IsFinite(a) == a.k = "fin"
Sign(a) == IF a.p > 0 THEN 1 ELSE IF a.p < 0 THEN -1 ELSE 0
InfOfSign(s) == IF s < 0 THEN NegInf ELSE PosInf

NNeg(a) == IF a.k = "nan" THEN NaN ELSE [a EXCEPT !.p = -a.p]

\* a + b
NAdd(a, b) ==
  IF a.k = "nan" \/ b.k = "nan" THEN NaN
  ELSE IF a.k = "inf" /\ b.k = "inf" THEN (IF a.p = b.p THEN a ELSE NaN)
  ELSE IF a.k = "inf" THEN a
  ELSE IF b.k = "inf" THEN b
  ELSE Fin(a.p * b.q + b.p * a.q, a.q * b.q)

\* a - b
NSub(a, b) == NAdd(a, NNeg(b))

\* a * b
NMul(a, b) ==
  IF a.k = "nan" \/ b.k = "nan" THEN NaN
  ELSE IF a.k = "inf" \/ b.k = "inf"
       THEN (IF Sign(a) = 0 \/ Sign(b) = 0 THEN NaN
             ELSE InfOfSign(Sign(a) * Sign(b)))
  ELSE Fin(a.p * b.p, a.q * b.q)

\* a / b
NDiv(a, b) ==
  IF a.k = "nan" \/ b.k = "nan" THEN NaN
  ELSE IF a.k = "inf" /\ b.k = "inf" THEN NaN
  ELSE IF a.k = "inf" THEN InfOfSign(IF Sign(b) < 0 THEN -Sign(a) ELSE Sign(a))
  ELSE IF b.k = "inf" THEN Int2Num(0)
  ELSE IF b.p = 0 THEN (IF a.p = 0 THEN NaN ELSE InfOfSign(Sign(a)))
  ELSE Fin(a.p * b.q, a.q * b.p)

\* a < b (false as soon as one side is NaN)
NLt(a, b) ==
  IF a.k = "nan" \/ b.k = "nan" THEN FALSE
  ELSE IF a.k = "inf" /\ b.k = "inf" THEN a.p < b.p
  ELSE IF a.k = "inf" THEN a.p < 0
  ELSE IF b.k = "inf" THEN b.p > 0
  ELSE a.p * b.q < b.p * a.q

NGt(a, b) == NLt(b, a)
NGe(a, b) == a.k # "nan" /\ b.k # "nan" /\ ~NLt(a, b)

\* Math.round: the integer nearest to a, ties towards +Infinity
MathRound(a) ==
  IF a.k = "fin" THEN Int2Num((2 * a.p + a.q) \div (2 * a.q)) ELSE a

(***************************************************************************)
(* JavaScript values                                                       *)
(***************************************************************************)
Undefined == [t |-> "undefined", n |-> NaN, s |-> "", b |-> FALSE]
Null == [t |-> "null", n |-> NaN, s |-> "", b |-> FALSE]
NumV(a) == [t |-> "number", n |-> a, s |-> "", b |-> FALSE]
StrV(str) == [t |-> "string", n |-> NaN, s |-> str, b |-> FALSE]
BoolV(bv) == [t |-> "boolean", n |-> NaN, s |-> "", b |-> bv]
N(i) == NumV(Int2Num(i))
R(p, q) == NumV(Fin(p, q))

\* v != null
NotNullish(v) == v.t \notin {"undefined", "null"}

\* ToBoolean(v)
Truthy(v) ==
  CASE v.t = "number" -> v.n.k # "nan" /\ v.n.p # 0
    [] v.t = "string" -> v.s # ""
    [] v.t = "boolean" -> v.b
    [] OTHER -> FALSE

(***************************************************************************)
(* Numeric conversion of strings.  The literals handled are the decimal    *)
(* ones, [digits][.digits], and Infinity, with an optional sign; exponent  *)
(* parts and 0x/0o/0b literals lie outside the strings the model draws.    *)
(***************************************************************************)
Digits == {"0", "1", "2", "3", "4", "5", "6", "7", "8", "9"}
WhiteSpace == {" ", "\t", "\n"}

CharAt(s, i) == SubSeq(s, i, i)
From(s, i) == SubSeq(s, i, Len(s))

DigitVal(c) ==
  CASE c = "0" -> 0 [] c = "1" -> 1 [] c = "2" -> 2 [] c = "3" -> 3
    [] c = "4" -> 4 [] c = "5" -> 5 [] c = "6" -> 6 [] c = "7" -> 7
    [] c = "8" -> 8 [] c = "9" -> 9

RECURSIVE Pow10(_)
Pow10(n) == IF n = 0 THEN 1 ELSE 10 * Pow10(n - 1)

\* number of consecutive digits of s starting at position i
RECURSIVE DigitRun(_, _)
DigitRun(s, i) ==
  IF i <= Len(s) /\ CharAt(s, i) \in Digits THEN 1 + DigitRun(s, i + 1) ELSE 0

\* value of the n digits of s starting at position i
RECURSIVE DigitsVal(_, _, _)
DigitsVal(s, i, n) ==
  IF n = 0 THEN 0
  ELSE 10 * DigitsVal(s, i, n - 1) + DigitVal(CharAt(s, i + n - 1))

RECURSIVE TrimLeft(_)
TrimLeft(s) ==
  IF Len(s) > 0 /\ CharAt(s, 1) \in WhiteSpace THEN TrimLeft(From(s, 2)) ELSE s

RECURSIVE TrimRight(_)
TrimRight(s) ==
  IF Len(s) > 0 /\ CharAt(s, Len(s)) \in WhiteSpace
  THEN TrimRight(SubSeq(s, 1, Len(s) - 1)) ELSE s

StartsWith(s, pre) == Len(s) >= Len(pre) /\ SubSeq(s, 1, Len(pre)) = pre

\* the longest unsigned numeric literal s starts with: its length (0 when s
\* starts with none) and its value
UnsignedPrefix(s) ==
  IF StartsWith(s, "Infinity") THEN [len |-> 8, val |-> PosInf]
  ELSE LET ni == DigitRun(s, 1)
           dot == ni + 1 <= Len(s) /\ CharAt(s, ni + 1) = "."
           nf == IF dot THEN DigitRun(s, ni + 2) ELSE 0
       IN  IF ni = 0 /\ nf = 0 THEN [len |-> 0, val |-> NaN]
           ELSE [len |-> ni + (IF dot THEN 1 + nf ELSE 0),
                 val |-> Fin(DigitsVal(s, 1, ni) * Pow10(nf)
                               + DigitsVal(s, ni + 2, nf), Pow10(nf))]

\* the longest signed numeric literal s starts with
SignedPrefix(s) ==
  LET signed == Len(s) > 0 /\ CharAt(s, 1) \in {"+", "-"}
      u == UnsignedPrefix(IF signed THEN From(s, 2) ELSE s)
  IN  IF u.len = 0 THEN u
      ELSE [len |-> u.len + (IF signed THEN 1 ELSE 0),
            val |-> IF signed /\ CharAt(s, 1) = "-" THEN NNeg(u.val) ELSE u.val]

\* String(v) for the scalars that reach parseFloat
JSToString(v) ==
  CASE v.t = "string" -> v.s
    [] v.t = "boolean" -> (IF v.b THEN "true" ELSE "false")
    [] v.t = "null" -> "null"
    [] OTHER -> "undefined"

\* parseFloat(v): leading white space is skipped, trailing text is ignored
parseFloat(v) == SignedPrefix(TrimLeft(JSToString(v))).val

\* Number(v): the whole trimmed string has to be a literal; "" is 0
Number(v) ==
  CASE v.t = "number" -> v.n
    [] v.t = "boolean" -> (IF v.b THEN Int2Num(1) ELSE Int2Num(0))
    [] v.t = "null" -> Int2Num(0)
    [] v.t = "string" ->
         LET str == TrimRight(TrimLeft(v.s))
             lit == SignedPrefix(str)
         IN  IF str = "" THEN Int2Num(0)
             ELSE IF lit.len = Len(str) THEN lit.val ELSE NaN
    [] OTHER -> NaN

(***************************************************************************)
(* Raw records.  An object is its property list; a property that is not    *)
(* listed reads as undefined.  The `metrics` and `workouts` columns hold   *)
(* an object, null, nothing at all, or a scalar.                           *)
(***************************************************************************)
Prop(key, val) == [key |-> key, val |-> val]
ObjV(props) == [t |-> "object", o |-> props]
NullObj == [t |-> "null", o |-> <<>>]
NoObj == [t |-> "undefined", o |-> <<>>]
ScalarObj == [t |-> "string", o |-> <<>>]

Raw(ingest_date, metrics, workouts) ==
  [ingest_date |-> ingest_date, metrics |-> metrics, workouts |-> workouts]

\* obj[key]
Get(obj, key) ==
  IF \E i \in 1..Len(obj) : obj[i].key = key
  THEN obj[CHOOSE i \in 1..Len(obj) :
             obj[i].key = key /\ \A j \in 1..(i - 1) : obj[j].key # key].val
  ELSE Undefined

\* value || {} : the properties a metric lookup can see
OrEmpty(m) == IF m.t = "object" THEN m.o ELSE <<>>

\* the bug of testing obj[key] for truthiness, which skips 0, "" and false
RECURSIVE getMetric_truthy(_, _)
getMetric_truthy(obj, keys) ==
  IF keys = <<>> THEN Null
  ELSE IF Truthy(Get(obj, Head(keys))) THEN Get(obj, Head(keys))
  ELSE getMetric_truthy(obj, Tail(keys))

\* Helper to pick the first available value from a list of potential keys
RECURSIVE getMetric(_, _)
getMetric(obj, keys) ==
  IF keys = <<>> THEN Null
  ELSE IF NotNullish(Get(obj, Head(keys))) THEN Get(obj, Head(keys))
  ELSE getMetric(obj, Tail(keys))

hrvKeys == <<"hrv", "hrvAverage", "hrv_average", "averageHrv", "HRV", "hrvAvg">>
rhrKeys ==
  <<"restingHeartRate", "rhr", "resting_heart_rate", "restingHeartRateAvg", "RHR">>
stepsKeys == <<"steps", "stepCount", "step_count", "dailyStepCount">>
sleepKeys == <<"sleepHours", "sleepDuration", "totalSleepTime", "sleepDurationHours">>
trainingLoadKeys == <<"trainingLoad", "trimp", "TRIMP", "training_load">>
spo2Keys == <<"oxygenSaturation", "spo2", "SpO2", "blood_oxygen_percentage">>
respiratoryRateKeys == <<"respiratoryRate", "respirationRate", "respiratory_rate">>
temperatureKeys == <<"temperature", "wristTemperature", "wristTemp", "bodyTemperature">>

SleepThreshold == 50
SecondsPerHour == 3600

\* the sleep duration in hours of a resolved raw value
sleepHours(sleepRaw) ==
  IF NotNullish(sleepRaw)
  THEN IF sleepRaw.t = "number"
       THEN IF NGt(sleepRaw.n, Int2Num(SleepThreshold))
            THEN NumV(NDiv(sleepRaw.n, Int2Num(SecondsPerHour)))
            ELSE sleepRaw
       ELSE IF ~IsNaN(parseFloat(sleepRaw)) THEN NumV(parseFloat(sleepRaw))
       ELSE Null
  ELSE Null

\* v != null ? Number(v) : null
Coerce(v) == IF NotNullish(v) THEN NumV(Number(v)) ELSE Null

DateLen == 10

\* entry.ingest_date.slice(0, 10) raises a TypeError when ingest_date is a
\* truthy value that is not a string
DateThrows(entry) ==
  Truthy(entry.ingest_date) /\ entry.ingest_date.t # "string"

date(entry) ==
  IF Truthy(entry.ingest_date)
  THEN SubSeq(entry.ingest_date.s, 1,
              IF Len(entry.ingest_date.s) < DateLen
              THEN Len(entry.ingest_date.s) ELSE DateLen)
  ELSE ""

\* the callback of entries.map: one raw record to one normalized day
processedEntry(entry) ==
  LET metrics == OrEmpty(entry.metrics)
      workouts == OrEmpty(entry.workouts)
  IN  [date |-> date(entry),
       hrv |-> Coerce(getMetric(metrics, hrvKeys)),
       rhr |-> Coerce(getMetric(metrics, rhrKeys)),
       steps |-> Coerce(getMetric(metrics, stepsKeys)),
       sleepHours |-> sleepHours(getMetric(metrics, sleepKeys)),
       trainingLoad |-> Coerce(getMetric(metrics, trainingLoadKeys)),
       spo2 |-> Coerce(getMetric(metrics, spo2Keys)),
       respiratoryRate |-> Coerce(getMetric(metrics, respiratoryRateKeys)),
       temperature |-> Coerce(getMetric(metrics, temperatureKeys))]

processed(es) == [i \in 1..Len(es) |-> processedEntry(es[i])]

\* processed[processed.length - 1] || {}
EmptyDay ==
  [date |-> "", hrv |-> Undefined, rhr |-> Undefined, steps |-> Undefined,
   sleepHours |-> Undefined, trainingLoad |-> Undefined, spo2 |-> Undefined,
   respiratoryRate |-> Undefined, temperature |-> Undefined]

\* the bug of summarising the first day of the history instead of the last
latest_first(p) == IF Len(p) > 0 THEN p[1] ELSE EmptyDay

latest(p) == IF Len(p) > 0 THEN p[Len(p)] ELSE EmptyDay

\* .filter((v) => v != null && !isNaN(v))
KeepValue(v) == NotNullish(v) /\ ~IsNaN(Number(v))

hrvValues(p) == SelectSeq([i \in 1..Len(p) |-> p[i].hrv], KeepValue)
rhrValues(p) == SelectSeq([i \in 1..Len(p) |-> p[i].rhr], KeepValue)
loadValues(p) == SelectSeq([i \in 1..Len(p) |-> p[i].trainingLoad], KeepValue)

\* values.reduce((sum, v) => sum + v, 0)
RECURSIVE SumValues(_)
SumValues(values) ==
  IF values = <<>> THEN Int2Num(0)
  ELSE NAdd(SumValues(SubSeq(values, 1, Len(values) - 1)), values[Len(values)].n)

\* values.length ? sum / values.length : null
Mean(values) ==
  IF Len(values) # 0
  THEN NumV(NDiv(SumValues(values), Int2Num(Len(values))))
  ELSE Null

baselineHRV(p) == Mean(hrvValues(p))
baselineRHR(p) == Mean(rhrValues(p))
baselineLoad(p) == Mean(loadValues(p))

(***************************************************************************)
(* Scores of the latest day                                                *)
(***************************************************************************)
\* ((hrv / baselineHRV) * 0.7 + (baselineRHR / rhr) * 0.3) * 100
RecoveryRatio(hrv, rhr, bHRV, bRHR) ==
  NMul(NAdd(NMul(NDiv(hrv.n, bHRV.n), Fin(7, 10)),
            NMul(NDiv(bRHR.n, rhr.n), Fin(3, 10))),
       Int2Num(100))

\* (trainingLoad / baselineLoad) * 100
ExertionRatio(load, bLoad) == NMul(NDiv(load.n, bLoad.n), Int2Num(100))

\* Math.floor: the bug of truncating the percentage instead of rounding it
MathFloor(a) == IF a.k = "fin" THEN Int2Num(a.p \div a.q) ELSE a

recoveryScore_floor(lat, bHRV, bRHR) ==
  IF Truthy(bHRV) /\ Truthy(lat.hrv) /\ Truthy(bRHR) /\ Truthy(lat.rhr)
  THEN NumV(MathFloor(RecoveryRatio(lat.hrv, lat.rhr, bHRV, bRHR)))
  ELSE Null

\* lat is `latest`; bHRV and bRHR are baselineHRV and baselineRHR
recoveryScore(lat, bHRV, bRHR) ==
  IF Truthy(bHRV) /\ Truthy(lat.hrv) /\ Truthy(bRHR) /\ Truthy(lat.rhr)
  THEN NumV(MathRound(RecoveryRatio(lat.hrv, lat.rhr, bHRV, bRHR)))
  ELSE Null

exertionScore(lat, bLoad) ==
  IF Truthy(bLoad) /\ Truthy(lat.trainingLoad)
  THEN NumV(MathRound(ExertionRatio(lat.trainingLoad, bLoad)))
  ELSE Null

\* the bug of a strict comparison at the upper boundary
targetZone_strict(score) ==
  IF NotNullish(score)
  THEN IF NGt(score.n, Int2Num(90)) THEN StrV("High")
       ELSE IF NGe(score.n, Int2Num(70)) THEN StrV("Moderate")
       ELSE StrV("Low")
  ELSE Null

\* Determine target exertion zone based on recovery
targetZone(score) ==
  IF NotNullish(score)
  THEN IF NGe(score.n, Int2Num(90)) THEN StrV("High")
       ELSE IF NGe(score.n, Int2Num(70)) THEN StrV("Moderate")
       ELSE StrV("Low")
  ELSE Null

\* Determine sleep quality text
sleepQuality(lat) ==
  IF NotNullish(lat.sleepHours)
  THEN IF NGe(lat.sleepHours.n, Fin(15, 2)) THEN StrV("Excellent")
       ELSE IF NGe(lat.sleepHours.n, Int2Num(6)) THEN StrV("Average")
       ELSE StrV("Poor")
  ELSE Null

\* Determine health monitoring alerts (simple thresholds)
alerts(lat) ==
  (IF NotNullish(lat.spo2) /\ NLt(lat.spo2.n, Int2Num(95))
   THEN <<"Low SpO2">> ELSE <<>>)
  \o (IF NotNullish(lat.respiratoryRate) /\ NGt(lat.respiratoryRate.n, Int2Num(20))
      THEN <<"High Respiratory Rate">> ELSE <<>>)
  \o (IF NotNullish(lat.temperature) /\ NGt(lat.temperature.n, Int2Num(38))
      THEN <<"Elevated Temperature">> ELSE <<>>)

DebtWindow == 7

\* processed.slice(-7)
last7(p) == SubSeq(p, Len(p) - DebtWindow + 1, Len(p))

\* days.reduce((sum, p) => sum + (p.sleepHours != null ? p.sleepHours : 0), 0)
RECURSIVE totalSleep(_)
totalSleep(days) ==
  IF days = <<>> THEN Int2Num(0)
  ELSE NAdd(totalSleep(SubSeq(days, 1, Len(days) - 1)),
            IF NotNullish(days[Len(days)].sleepHours)
            THEN days[Len(days)].sleepHours.n ELSE Int2Num(0))

\* 7 * 7.5
optimal == NMul(Int2Num(DebtWindow), Fin(15, 2))

\* the bug of not flooring a sleep surplus at zero
sleepDebtHours_unfloored(p) ==
  IF Len(p) >= DebtWindow
  THEN NumV(NSub(optimal, totalSleep(last7(p))))
  ELSE Null

\* Calculate sleep debt over the last 7 days
sleepDebtHours(p) ==
  IF Len(p) >= DebtWindow
  THEN LET debt == NSub(optimal, totalSleep(last7(p)))
       IN  IF NGt(debt, Int2Num(0)) THEN NumV(debt) ELSE N(0)
  ELSE Null

\* the bug of leaving the accumulated sleep debt out of the recommendation
targetSleep_nodebt(score, exertion, debt) ==
  IF NotNullish(score)
  THEN LET t0 == Int2Num(8)
           t1 == IF NLt(score.n, Int2Num(80)) THEN NAdd(t0, Fin(1, 2)) ELSE t0
           t2 == IF NotNullish(exertion) /\ NGt(exertion.n, Int2Num(120))
                 THEN NAdd(t1, Fin(1, 2)) ELSE t1
       IN  NumV(t2)
  ELSE Null

\* Estimate a target sleep recommendation for tonight: start with eight hours
\* and add half-hour increments
targetSleep(score, exertion, debt) ==
  IF NotNullish(score)
  THEN LET t0 == Int2Num(8)
           t1 == IF NLt(score.n, Int2Num(80)) THEN NAdd(t0, Fin(1, 2)) ELSE t0
           t2 == IF NotNullish(exertion) /\ NGt(exertion.n, Int2Num(120))
                 THEN NAdd(t1, Fin(1, 2)) ELSE t1
           t3 == IF NotNullish(debt) /\ NGt(debt.n, Int2Num(3))
                 THEN NAdd(t2, Fin(1, 2)) ELSE t2
       IN  NumV(t3)
  ELSE Null

(***************************************************************************)
(* Trend data across all processed entries                                 *)
(***************************************************************************)
labels(p) == [i \in 1..Len(p) |-> p[i].date]

\* the bug of dropping the days without a value instead of leaving a gap
recoveryTrend_skip(p, bHRV, bRHR) ==
  SelectSeq([i \in 1..Len(p) |->
               IF Truthy(bHRV) /\ Truthy(p[i].hrv) /\ Truthy(bRHR) /\ Truthy(p[i].rhr)
               THEN NumV(RecoveryRatio(p[i].hrv, p[i].rhr, bHRV, bRHR))
               ELSE Null],
            NotNullish)

recoveryTrend(p, bHRV, bRHR) ==
  [i \in 1..Len(p) |->
     IF Truthy(bHRV) /\ Truthy(p[i].hrv) /\ Truthy(bRHR) /\ Truthy(p[i].rhr)
     THEN NumV(RecoveryRatio(p[i].hrv, p[i].rhr, bHRV, bRHR))
     ELSE Null]

exertionTrend(p, bLoad) ==
  [i \in 1..Len(p) |->
     IF Truthy(bLoad) /\ Truthy(p[i].trainingLoad)
     THEN NumV(ExertionRatio(p[i].trainingLoad, bLoad))
     ELSE Null]

(***************************************************************************)
(* One render of Home                                                      *)
(***************************************************************************)
Fields == {"hrv", "rhr", "steps", "sleepHours", "trainingLoad", "spo2",
           "respiratoryRate", "temperature"}
FixedFields == Fields \ {"steps"}

\* row.x != null ? row.x.toFixed(2) : '-' raises a TypeError when the value
\* is neither null nor a number
RowThrows(row) ==
  \E f \in FixedFields : NotNullish(row[f]) /\ row[f].t # "number"

NoRender ==
  [status |-> "threw", processed |-> <<>>, baselineHRV |-> Null,
   baselineRHR |-> Null, baselineLoad |-> Null, recoveryScore |-> Null,
   exertionScore |-> Null, targetZone |-> Null, sleepQuality |-> Null,
   alerts |-> <<>>, sleepDebtHours |-> Null, targetSleep |-> Null,
   labels |-> <<>>, recoveryTrend |-> <<>>, exertionTrend |-> <<>>]

\* the scores and trends derived from the normalized days and the baselines
Derive(p, bHRV, bRHR, bLoad) ==
  LET score == recoveryScore(latest(p), bHRV, bRHR)
      exertion == exertionScore(latest(p), bLoad)
      debt == sleepDebtHours(p)
  IN  [status |-> "ok", processed |-> p,
       baselineHRV |-> bHRV, baselineRHR |-> bRHR, baselineLoad |-> bLoad,
       recoveryScore |-> score,
       exertionScore |-> exertion,
       targetZone |-> targetZone(score),
       sleepQuality |-> sleepQuality(latest(p)),
       alerts |-> alerts(latest(p)),
       sleepDebtHours |-> debt,
       targetSleep |-> targetSleep(score, exertion, debt),
       labels |-> labels(p),
       recoveryTrend |-> recoveryTrend(p, bHRV, bRHR),
       exertionTrend |-> exertionTrend(p, bLoad)]

\* what one call of Home(), with the given entries and loading flag, yields
Home(es, ld) ==
  IF \E i \in 1..Len(es) : DateThrows(es[i]) THEN NoRender
  ELSE LET p == processed(es)
       IN  IF ~ld /\ \E i \in 1..Len(p) : RowThrows(p[i]) THEN NoRender
           ELSE Derive(p, baselineHRV(p), baselineRHR(p), baselineLoad(p))

(***************************************************************************)
(* The histories the timeseries route may answer with                      *)
(***************************************************************************)
MaxDays == 2
MaxScoreDays == 2
MaxDebtDays == 8
MaxSleepRaw == 54

RECURSIVE SeqsOfLen(_, _)
SeqsOfLen(S, n) ==
  IF n = 0 THEN {<<>>}
  ELSE {Append(h, x) : h \in SeqsOfLen(S, n - 1), x \in S}

SeqsUpTo(S, lo, hi) == UNION {SeqsOfLen(S, n) : n \in lo..hi}

Stamp == StrV("2024-01-05T10:00:00.000Z")

\* records whose metrics are sparse, oddly typed or malformed
OddSamples ==
  { Raw(Stamp,
        ObjV(<<Prop("hrv", N(45)), Prop("restingHeartRate", N(65)),
               Prop("steps", N(8000)), Prop("sleepHours", N(7)),
               Prop("trainingLoad", N(100)), Prop("spo2", N(98)),
               Prop("respiratoryRate", N(14)), Prop("temperature", N(37))>>),
        ObjV(<<>>)),
    Raw(StrV("2024-01-06"),
        ObjV(<<Prop("hrv", N(-45)), Prop("rhr", N(65)),
               Prop("sleepDuration", N(27000)), Prop("trimp", N(-100))>>),
        NullObj),
    Raw(Stamp,
        ObjV(<<Prop("hrv", N(0)), Prop("rhr", N(60)),
               Prop("trainingLoad", N(0)), Prop("sleepHours", N(50)),
               Prop("steps", N(0))>>),
        NoObj),
    Raw(Stamp,
        ObjV(<<Prop("hrvAverage", StrV("60")), Prop("rhr", StrV(" 58 ")),
               Prop("sleepDuration", StrV("27000")), Prop("trimp", StrV("abc")),
               Prop("steps", StrV("")), Prop("spo2", StrV("9x"))>>),
        NullObj),
    Raw(StrV("2024"),
        ObjV(<<Prop("hrv", Null), Prop("hrvAverage", N(40)), Prop("HRV", N(99)),
               Prop("RHR", N(1)), Prop("restingHeartRate", N(70)),
               Prop("sleepHours", StrV("7.5h")), Prop("spo2", N(93)),
               Prop("respiratoryRate", N(22)), Prop("temperature", N(39))>>),
        NullObj),
    Raw(Stamp,
        ObjV(<<Prop("hrv", StrV("Infinity")), Prop("rhr", N(60)),
               Prop("trainingLoad", StrV("-Infinity")),
               Prop("sleepHours", StrV("Infinity"))>>),
        NullObj),
    Raw(Undefined, NullObj, NullObj),
    Raw(Null, ScalarObj, ScalarObj),
    Raw(StrV(""), NoObj, NoObj),
    Raw(N(20240105), ObjV(<<Prop("hrv", N(50))>>), NullObj),
    Raw(BoolV(TRUE), NullObj, NullObj),
    Raw(N(0),
        ObjV(<<Prop("hrv", BoolV(TRUE)), Prop("steps", BoolV(FALSE)),
               Prop("sleepHours", BoolV(TRUE)), Prop("trainingLoad", StrV("1.5")),
               Prop("temperature", StrV("-.5"))>>),
        NullObj) }

\* well-formed records that differ in HRV, resting heart rate and load
ScoreDay(hrv, rhr, load) ==
  Raw(Stamp,
      ObjV(<<Prop("hrv", N(hrv)), Prop("restingHeartRate", N(rhr)),
             Prop("trainingLoad", N(load))>>),
      NullObj)

ScoreSamples ==
  {ScoreDay(h, 60, 100) : h \in {20, 28, 30, 40, 42, 50, 58, 72}}
  \cup {ScoreDay(45, 65, 50), ScoreDay(55, 55, 150), ScoreDay(50, 0, 100),
        ScoreDay(50, 60, 0)}

\* days of a week: a short night after hard training, a full night, and a
\* day without metrics
TiredDay ==
  Raw(Stamp,
      ObjV(<<Prop("hrv", N(30)), Prop("rhr", N(70)), Prop("trainingLoad", N(300)),
             Prop("sleepHours", N(5))>>), NullObj)
FreshDay ==
  Raw(Stamp,
      ObjV(<<Prop("hrv", N(50)), Prop("rhr", N(50)), Prop("trainingLoad", N(100)),
             Prop("sleepDuration", N(28800))>>), NullObj)
BlankDay == Raw(Stamp, NullObj, NullObj)

DebtHistories ==
  SeqsUpTo({TiredDay, FreshDay}, DebtWindow - 1, MaxDebtDays)
  \cup SeqsUpTo({FreshDay, BlankDay}, DebtWindow - 1, MaxDebtDays)

\* raw sleep values of every type around the threshold
SleepRaws ==
  {N(i) : i \in (-2)..MaxSleepRaw}
  \cup {R(5001, 100), R(15, 2), N(3600), N(27000), N(28800)}
  \cup {StrV(str) : str \in {"", " ", "7", "7.5", " 8", "50", "51", "27000",
                             "7.5h", "h7", "abc", ".", "-", "-3", "+6.25",
                             "Infinity", "-Infinity", "8.", ".5", "1.2.3"}}
  \cup {BoolV(TRUE), BoolV(FALSE), Null, Undefined}

SleepSamples ==
  {Raw(Stamp, ObjV(<<Prop("sleepDuration", v)>>), NullObj) : v \in SleepRaws}

\* raw values of every type for a coerced metric
MetricRaws ==
  {N(0), N(-3), N(61), R(123, 10), StrV(""), StrV("61"), StrV(" 61.5 "),
   StrV("61bpm"), StrV("abc"), StrV("Infinity"), StrV("-Infinity"), StrV("-"),
   BoolV(TRUE), BoolV(FALSE), Null, Undefined}

MetricSamples ==
  {Raw(Stamp, ObjV(<<Prop(k, v)>>), NullObj) :
     k \in {"hrvAvg", "RHR", "dailyStepCount", "training_load",
            "blood_oxygen_percentage", "respiratory_rate", "bodyTemperature"},
     v \in MetricRaws}

Histories ==
  SeqsUpTo(OddSamples, 0, MaxDays)
  \cup SeqsUpTo(ScoreSamples, 1, MaxScoreDays)
  \cup DebtHistories
  \cup SeqsOfLen(SleepSamples, 1)
  \cup SeqsOfLen(MetricSamples, 1)

(***************************************************************************)
(* The dashboard: mount, one fetch, and the renders that follow            *)
(***************************************************************************)
NoArg == [obj |-> <<>>, keys |-> <<>>]

Init ==
  /\ entries = <<>>
  /\ loading = TRUE
  /\ pc = "fetching"
  /\ arg = NoArg
  /\ result = Undefined
  /\ store = <<>>
  /\ outcome = "pending"

\* the fetch answers with a body that has a data array: setEntries(json.data)
FetchData ==
  /\ pc = "fetching"
  /\ \E data \in Histories : entries' = data
  /\ pc' = "finally"
  /\ outcome' = "data"
  /\ UNCHANGED <<loading, arg, result, store>>

\* the body has no data field: setEntries([])
FetchNoData ==
  /\ pc = "fetching"
  /\ entries' = <<>>
  /\ pc' = "finally"
  /\ outcome' = "nodata"
  /\ UNCHANGED <<loading, arg, result, store>>

\* fetch or res.json() rejects: the catch block only logs
\* the bug of clearing the loading flag in the try block only, so that a
\* failed fetch leaves it set
FetchFails_stuck ==
  /\ pc = "fetching"
  /\ pc' = "done"
  /\ outcome' = "failed"
  /\ UNCHANGED <<entries, loading, arg, result, store>>

FetchFails ==
  /\ pc = "fetching"
  /\ pc' = "finally"
  /\ outcome' = "failed"
  /\ UNCHANGED <<entries, loading, arg, result, store>>

\* finally: setLoading(false)
Finally ==
  /\ pc = "finally"
  /\ loading' = FALSE
  /\ pc' = "done"
  /\ UNCHANGED <<entries, arg, result, store, outcome>>

Next == FetchData \/ FetchNoData \/ FetchFails \/ Finally

Spec == Init /\ [][Next]_vars

\* the fetch promise settles and the finally block runs: no step of
\* fetchData waits on anything else
FairSpec == Spec /\ WF_vars(Next)

(***************************************************************************)
(* getMetric on its own: one call with an object and a list of keys        *)
(***************************************************************************)
MaxKeys == 2

ResolveKeys == {"hrv", "hrvAverage", "HRV", "hrvAvg"}
ResolveValues == {Undefined, Null, N(0), N(55), StrV(""), BoolV(FALSE)}

ResolveObjects ==
  {<<Prop("hrv", a), Prop("hrvAverage", b), Prop("HRV", c)>> :
     a \in ResolveValues, b \in ResolveValues, c \in ResolveValues}

ResolveInputs ==
  [obj : ResolveObjects, keys : SeqsUpTo(ResolveKeys, 0, MaxKeys)]

InitResolve ==
  /\ entries = <<>>
  /\ loading = TRUE
  /\ pc = "call"
  /\ arg \in ResolveInputs
  /\ result = Undefined
  /\ store = <<>>
  /\ outcome = "pending"

Resolve ==
  /\ pc = "call"
  /\ result' = getMetric(arg.obj, arg.keys)
  /\ pc' = "return"
  /\ UNCHANGED <<entries, loading, arg, store, outcome>>

NextResolve == Resolve

SpecResolve == InitResolve /\ [][NextResolve]_vars

(***************************************************************************)
(* POST /api/hae/ingest (pages/api/hae/ingest.js).  A request carries its  *)
(* method, its Authorization header and its parsed body; the environment   *)
(* holds HAE_TOKEN and the two Supabase settings.  What the insert does    *)
(* (stores the row, returns an error, or throws) is the store's choice.    *)
(***************************************************************************)
\* ToBoolean of a body field, which may also be an object
FieldTruthy(v) == IF v.t = "object" THEN TRUE ELSE Truthy(v)

\* process.env.SUPABASE_URL and SUPABASE_SERVICE_ROLE both set: a client;
\* otherwise null
getSupabaseClient(env) ==
  IF ~Truthy(env.SUPABASE_URL) \/ ~Truthy(env.SUPABASE_SERVICE_ROLE)
  THEN "null"
  ELSE "client"

\* req.headers.authorization || ''
authHeader(req) ==
  IF Truthy(req.authorization) THEN req.authorization.s ELSE ""

BearerPrefix == "Bearer "

\* the text after 'Bearer ', or null
token(req) ==
  IF StartsWith(authHeader(req), BearerPrefix)
  THEN StrV(From(authHeader(req), Len(BearerPrefix) + 1))
  ELSE Null

\* the bug of comparing the token without testing that it is non-empty
unauthorized_anyToken(req, env) == token(req) # env.HAE_TOKEN

\* !token || token !== process.env.HAE_TOKEN
unauthorized(req, env) ==
  ~Truthy(token(req)) \/ token(req) # env.HAE_TOKEN

\* req.body || {} : the properties the destructuring can see
bodyProps(req) == OrEmpty(req.body)

\* const { metrics, workouts, ...rest } = req.body || {}
metricsOf(req) == Get(bodyProps(req), "metrics")
workoutsOf(req) == Get(bodyProps(req), "workouts")
restOf(req) ==
  SelectSeq(bodyProps(req), LAMBDA pr : pr.key \notin {"metrics", "workouts"})

\* the row handed to the store
record(req, ingestDate) ==
  [ingest_date |-> ingestDate,
   metrics |-> IF FieldTruthy(metricsOf(req)) THEN metricsOf(req) ELSE Null,
   workouts |-> IF FieldTruthy(workoutsOf(req)) THEN workoutsOf(req) ELSE Null,
   payload |-> ObjV(restOf(req))]

\* what one call of the handler did: the answer, the rows handed to
\* insert(), and the rows the table gained
Answer(status, json, handed, stored) ==
  [status |-> status, json |-> json, handed |-> handed, stored |-> stored]

\* the bug of answering 500 when insert() returns an error
persist_strict(env, db, row) ==
  IF getSupabaseClient(env) = "null" THEN Answer(200, "success", <<>>, <<>>)
  ELSE CASE db = "ok" -> Answer(200, "success", <<row>>, <<row>>)
         [] db = "error" -> Answer(500, "Internal server error", <<row>>, <<>>)
         [] db = "throws" -> Answer(500, "Internal server error", <<row>>, <<>>)

\* the try block: insert when a client exists, answer 200 unless it throws
persist(env, db, row) ==
  IF getSupabaseClient(env) = "null" THEN Answer(200, "success", <<>>, <<>>)
  ELSE CASE db = "ok" -> Answer(200, "success", <<row>>, <<row>>)
         [] db = "error" -> Answer(200, "success", <<row>>, <<>>)
         [] db = "throws" -> Answer(500, "Internal server error", <<row>>, <<>>)

ingestHandler(req, env, db, ingestDate) ==
  IF req.method # "POST"
  THEN Answer(405, "Method not allowed", <<>>, <<>>)
  ELSE IF unauthorized(req, env)
  THEN Answer(401, "Unauthorized", <<>>, <<>>)
  ELSE IF ~FieldTruthy(metricsOf(req)) /\ ~FieldTruthy(workoutsOf(req))
  THEN Answer(400, "Request body must include metrics or workouts", <<>>, <<>>)
  ELSE persist(env, db, record(req, ingestDate))

\* requests, environments and store behaviours
Methods == {"GET", "POST"}
Secret == "s3cret"
AuthHeaders ==
  {Undefined, StrV(""), StrV("Bearer "), StrV("Bearer " \o Secret),
   StrV("Bearer wrong"), StrV("bearer " \o Secret), StrV(Secret)}
Tokens == {Undefined, StrV(""), StrV(Secret)}
Environments ==
  [HAE_TOKEN : Tokens,
   SUPABASE_URL : {Undefined, StrV("set")},
   SUPABASE_SERVICE_ROLE : {Undefined, StrV("set")}]
StoreBehaviours == {"ok", "error", "throws"}

MetricsFields == {Undefined, Null, N(0), ObjV(<<Prop("hrv", N(50))>>)}
WorkoutsFields == {Undefined, BoolV(FALSE), StrV(""), ObjV(<<>>)}
RestFields == {<<>>, <<Prop("device", StrV("watch")), Prop("ingest_date", StrV("x"))>>}
FieldProp(key, val) == IF val = Undefined THEN <<>> ELSE <<Prop(key, val)>>
Bodies ==
  {NoObj} \cup
  {ObjV(FieldProp("workouts", w) \o rest \o FieldProp("metrics", m)) :
     <<m, w, rest>> \in MetricsFields \X WorkoutsFields \X RestFields}
Requests == [method : Methods, authorization : AuthHeaders, body : Bodies]

IngestDate == StrV("2024-03-01T08:00:00.000Z")
Stored == Raw(Stamp, ObjV(<<Prop("hrv", N(60))>>), NullObj)
Tables == {<<>>, <<Stored>>}

InitIngest ==
  /\ entries = <<>>
  /\ loading = TRUE
  /\ pc = "request"
  /\ arg \in [req : Requests, env : Environments, db : StoreBehaviours]
  /\ result = Undefined
  /\ store \in Tables
  /\ outcome = "pending"

Ingest ==
  /\ pc = "request"
  /\ result' = ingestHandler(arg.req, arg.env, arg.db, IngestDate)
  /\ store' = store \o result'.stored
  /\ pc' = "answered"
  /\ UNCHANGED <<entries, loading, arg, outcome>>

NextIngest == Ingest

SpecIngest == InitIngest /\ [][NextIngest]_vars

(***************************************************************************)
(* GET /api/timeseries (pages/api/timeseries.js).  Instants are modelled   *)
(* as whole days since 1970-01-01 (the time of day, which setDate,         *)
(* setMonth and setFullYear leave alone, is not modelled).  A Date is      *)
(* valid within 100,000,000 days of the epoch; toISOString on an invalid   *)
(* Date throws a RangeError.                                               *)
(***************************************************************************)
\* day number of the proleptic Gregorian date y-m-d, m in 1..12, any d
DaysFromCivil(y, m, d) ==
  LET yy == IF m <= 2 THEN y - 1 ELSE y
      era == yy \div 400
      yoe == yy - era * 400
      mp == IF m > 2 THEN m - 3 ELSE m + 9
      doy == (153 * mp + 2) \div 5 + d - 1
      doe == yoe * 365 + yoe \div 4 - yoe \div 100 + doy
  IN era * 146097 + doe - 719468

\* the date [y, m, d] of a day number
CivilFromDays(z) ==
  LET zz == z + 719468
      era == zz \div 146097
      doe == zz - era * 146097
      yoe == (doe - doe \div 1460 + doe \div 36524 - doe \div 146096) \div 365
      doy == doe - (365 * yoe + yoe \div 4 - yoe \div 100)
      mp == (5 * doy + 2) \div 153
      d == doy - (153 * mp + 2) \div 5 + 1
      m == IF mp < 10 THEN mp + 3 ELSE mp - 9
  IN [y |-> yoe + era * 400 + (IF m <= 2 THEN 1 ELSE 0), m |-> m, d |-> d]

\* date.setMonth(month0) with month0 the zero-based month, of any sign
SetMonth(day, month0) ==
  DaysFromCivil(CivilFromDays(day).y + month0 \div 12, (month0 % 12) + 1,
                CivilFromDays(day).d)

\* date.setFullYear(year)
SetFullYear(day, year) ==
  DaysFromCivil(year, CivilFromDays(day).m, CivilFromDays(day).d)

MaxDateDay == 100000000

\* date.toISOString(): the instant, or a RangeError for an invalid Date
Thrown == [t |-> "throws", day |-> 0]
toISOString(day) ==
  IF day < -MaxDateDay \/ day > MaxDateDay THEN Thrown
  ELSE [t |-> "date", day |-> day]

\* the instant an ingest_date string names
DayOf(iso) ==
  DaysFromCivil(DigitsVal(iso, 1, 4), DigitsVal(iso, 6, 2), DigitsVal(iso, 9, 2))

Units == {"d", "w", "m", "y"}

\* range.match(/(\d+)([dwmy])/): the positions where a run of digits is
\* directly followed by a unit letter; the match is the leftmost one
MatchStarts(s) ==
  {i \in 1..Len(s) :
     /\ DigitRun(s, i) >= 1
     /\ i + DigitRun(s, i) <= Len(s)
     /\ CharAt(s, i + DigitRun(s, i)) \in Units}

\* the window start for amount and unit, counted back from now
windowStart(amount, unit, now) ==
  CASE unit = "d" -> now - amount
    [] unit = "w" -> now - amount * 7
    [] unit = "m" -> SetMonth(now, (CivilFromDays(now).m - 1) - amount)
    [] unit = "y" -> SetFullYear(now, CivilFromDays(now).y - amount)

parseRange(range, now) ==
  IF ~(range.t = "array" \/ Truthy(range)) \/ range.t # "string" THEN Null
  ELSE IF MatchStarts(range.s) = {} THEN Null
  ELSE LET at == CHOOSE i \in MatchStarts(range.s) :
                   \A j \in MatchStarts(range.s) : i <= j
           run == DigitRun(range.s, at)
       IN toISOString(windowStart(DigitsVal(range.s, at, run),
                                  CharAt(range.s, at + run), now))

\* .select('ingest_date, metrics, workouts')
selectColumns(row) == Raw(row.ingest_date, row.metrics, row.workouts)

\* the query: the selected columns of the rows on or after since (all rows
\* when since is null), by ascending ingest_date
query(table, since) ==
  LET kept == SelectSeq(table, LAMBDA row :
                 since = Null \/ DayOf(row.ingest_date.s) >= since.day)
      ordered == SortSeq(kept, LAMBDA a, b :
                   DayOf(a.ingest_date.s) < DayOf(b.ingest_date.s))
  IN [i \in 1..Len(ordered) |-> selectColumns(ordered[i])]

\* what one call of the handler did: the answer and whether the table was
\* queried
Reply(status, json, data, queried) ==
  [status |-> status, json |-> json, data |-> data, queried |-> queried]

timeseriesHandler(req, env, db, table, now) ==
  IF req.method # "GET"
  THEN Reply(405, "Method not allowed", <<>>, FALSE)
  ELSE LET range == IF req.range.t = "array" \/ Truthy(req.range)
                    THEN req.range ELSE StrV("60d")
           since == parseRange(range, now)
       IN IF since = Thrown
          THEN Reply(500, "uncaught RangeError", <<>>, FALSE)
          ELSE IF getSupabaseClient(env) = "null"
          THEN Reply(200, "data", <<>>, FALSE)
          ELSE CASE db = "ok" -> Reply(200, "data", query(table, since), TRUE)
                 [] db = "error" -> Reply(500, "Database error", <<>>, TRUE)
                 [] db = "throws" -> Reply(500, "Internal server error", <<>>, TRUE)

\* range values of the query string
RangeList == [t |-> "array", items |-> <<"30d", "7d">>]
Ranges ==
  {Undefined, StrV(""), RangeList, StrV("60d"), StrV("5d"), StrV("2w"),
   StrV("1m"), StrV("1y"), StrV("all"), StrV("60"), StrV("7D"), StrV("1.5d"),
   StrV("last5days"), StrV("200000000d"), StrV("300000y")}
SeriesRequests == [method : Methods, range : Ranges]
SeriesEnvironments ==
  [SUPABASE_URL : {Undefined, StrV("set")},
   SUPABASE_SERVICE_ROLE : {Undefined, StrV("set")}]

\* the server's clock
Clocks == {DaysFromCivil(2024, 3, 31), DaysFromCivil(2024, 7, 15)}

\* rows of the health_metrics table
Row(ingest_date) ==
  [ingest_date |-> StrV(ingest_date),
   metrics |-> ObjV(<<Prop("hrv", N(60))>>),
   workouts |-> NullObj,
   payload |-> ObjV(<<Prop("device", StrV("watch"))>>)]
SeriesTables ==
  LET old == Row("2022-11-02T09:00:00.000Z")
      winter == Row("2024-02-20T09:00:00.000Z")
      spring == Row("2024-03-29T09:00:00.000Z")
  IN {<<>>, <<old>>, <<old, winter>>, <<spring, old>>, <<old, winter, spring>>}

InitSeries ==
  /\ entries = <<>>
  /\ loading = TRUE
  /\ pc = "request"
  /\ arg \in [req : SeriesRequests, env : SeriesEnvironments,
              db : StoreBehaviours, now : Clocks]
  /\ result = Undefined
  /\ store \in SeriesTables
  /\ outcome = "pending"

Timeseries ==
  /\ pc = "request"
  /\ result' = timeseriesHandler(arg.req, arg.env, arg.db, store, arg.now)
  /\ pc' = "answered"
  /\ UNCHANGED <<entries, loading, arg, store, outcome>>

NextSeries == Timeseries

SpecSeries == InitSeries /\ [][NextSeries]_vars

\* what the component renders in the current state
rendered == Home(entries, loading)

(***************************************************************************)
(* Properties                                                              *)
(***************************************************************************)
Ok == rendered.status = "ok"
Days == rendered.processed
Last == latest(Days)

\* a number that is there and is not zero (nor NaN)
Usable(v) == v.t = "number" /\ v.n.k # "nan" /\ ~(v.n.k = "fin" /\ v.n.p = 0)

\* round(70 * hrv / bHRV + 30 * bRHR / rhr) of four finite non-zero numbers,
\* in integer arithmetic
RoundedRecovery(hrv, rhr, bHRV, bRHR) ==
  LET num == 70 * hrv.p * bHRV.q * bRHR.q * rhr.p
             + 30 * bRHR.p * rhr.q * hrv.q * bHRV.p
      den == hrv.q * bHRV.p * bRHR.q * rhr.p
      n == IF den < 0 THEN -num ELSE num
      d == Abs(den)
  IN  (2 * n + d) \div (2 * d)

ExpectedRecovery(hrv, rhr, bHRV, bRHR) ==
  IF \A v \in {hrv, rhr, bHRV, bRHR} : IsFinite(v.n)
  THEN N(RoundedRecovery(hrv.n, rhr.n, bHRV.n, bRHR.n))
  ELSE NumV(MathRound(NMul(NAdd(NMul(NDiv(hrv.n, bHRV.n), Fin(7, 10)),
                                NMul(NDiv(bRHR.n, rhr.n), Fin(3, 10))),
                           Int2Num(100))))

\* C1: the recovery score of the latest day is the rounded weighted ratio
\* exactly when both baselines and the latest HRV and resting heart rate are
\* present and non-zero; otherwise it is absent.
C1_RecoveryScore ==
  Ok =>
    IF Usable(rendered.baselineHRV) /\ Usable(Last.hrv)
       /\ Usable(rendered.baselineRHR) /\ Usable(Last.rhr)
    THEN rendered.recoveryScore
           = ExpectedRecovery(Last.hrv, Last.rhr,
                              rendered.baselineHRV, rendered.baselineRHR)
    ELSE rendered.recoveryScore = Null

\* baseline HRV 50, HRV 55, baseline RHR 60, RHR 55 give 110
C1_Witness ==
  /\ Ok /\ pc = "done"
  /\ rendered.baselineHRV = N(50) /\ Last.hrv = N(55)
  /\ rendered.baselineRHR = N(60) /\ Last.rhr = N(55)
  /\ rendered.recoveryScore = N(110)

\* a value that the normalization left out: null, undefined or not-a-number
Missing(v) == ~NotNullish(v) \/ (v.t = "number" /\ IsNaN(v.n))

\* the three sequences have one entry per fetched record, and the date of
\* position i is that of record i
TrendShape(r) ==
  /\ Len(r.labels) = Len(entries)
  /\ Len(r.recoveryTrend) = Len(entries)
  /\ Len(r.exertionTrend) = Len(entries)
  /\ \A i \in 1..Len(entries) : r.labels[i] = date(entries[i])

\* a trend entry that is there is the unrounded score of the day at the same
\* position
TrendValues(r) ==
  \A i \in 1..Len(r.processed) :
    /\ NotNullish(r.recoveryTrend[i]) =>
         NumV(MathRound(r.recoveryTrend[i].n))
           = ExpectedRecovery(r.processed[i].hrv, r.processed[i].rhr,
                              r.baselineHRV, r.baselineRHR)
    /\ NotNullish(r.exertionTrend[i]) =>
         r.exertionTrend[i].n
           = NMul(NDiv(r.processed[i].trainingLoad.n, r.baselineLoad.n),
                  Int2Num(100))

\* C2 as stated: the trends have one entry per day of the history, aligned
\* by position, and an entry is absent exactly where the baseline or the
\* day's value is missing.
C2_AbsentWhereMissing ==
  Ok =>
    LET r == rendered
    IN  /\ TrendShape(r)
        /\ \A i \in 1..Len(r.processed) :
             /\ r.recoveryTrend[i] = Null
                  <=> \/ Missing(r.baselineHRV) \/ Missing(r.processed[i].hrv)
                      \/ Missing(r.baselineRHR) \/ Missing(r.processed[i].rhr)
             /\ r.exertionTrend[i] = Null
                  <=> \/ Missing(r.baselineLoad)
                      \/ Missing(r.processed[i].trainingLoad)

\* C2 amended: the trends have one entry per day of the history, aligned by
\* position, and an entry is absent exactly where the baseline or the day's
\* value is absent, zero or not-a-number; no day is skipped.
C2_TrendAligned ==
  Ok =>
    LET r == rendered
    IN  /\ TrendShape(r)
        /\ TrendValues(r)
        /\ \A i \in 1..Len(r.processed) :
             /\ r.recoveryTrend[i] = Null
                  <=> ~(/\ Usable(r.baselineHRV) /\ Usable(r.processed[i].hrv)
                        /\ Usable(r.baselineRHR) /\ Usable(r.processed[i].rhr))
             /\ r.exertionTrend[i] = Null
                  <=> ~(/\ Usable(r.baselineLoad)
                        /\ Usable(r.processed[i].trainingLoad))

\* a two-day history whose second day has an HRV of zero: a gap at position 2
C2_Witness ==
  /\ Ok /\ pc = "done" /\ Len(entries) = 2
  /\ rendered.processed[2].hrv = N(0)
  /\ NotNullish(rendered.recoveryTrend[1])
  /\ rendered.recoveryTrend[2] = Null
  /\ Len(rendered.labels) = 2

\* the value the sleep lookup resolved for a raw record
SleepRawOf(entry) == getMetric(OrEmpty(entry.metrics), sleepKeys)

\* one threshold rule for numbers and for parsed strings alike
ThresholdRule(n) ==
  IF NGt(n, Int2Num(50)) THEN NumV(NDiv(n, Int2Num(3600))) ELSE NumV(n)

ClaimedSleep(v) ==
  IF ~NotNullish(v) THEN Null
  ELSE IF v.t = "number" THEN ThresholdRule(v.n)
  ELSE IF ~IsNaN(parseFloat(v)) THEN ThresholdRule(parseFloat(v))
  ELSE Null

\* C3: every resolved sleep value goes through one threshold rule: absent
\* stays absent, a number above 50 is divided by 3600, a number up to 50 is
\* kept, a string that parses as a number is parsed and then treated like
\* that number, anything else is absent.
C3_SleepThresholdRule ==
  Ok =>
    \A i \in 1..Len(entries) :
      rendered.processed[i].sleepHours = ClaimedSleep(SleepRawOf(entries[i]))

CoercedFields == Fields \ {"sleepHours"}

KeysOf(f) ==
  CASE f = "hrv" -> hrvKeys
    [] f = "rhr" -> rhrKeys
    [] f = "steps" -> stepsKeys
    [] f = "trainingLoad" -> trainingLoadKeys
    [] f = "spo2" -> spo2Keys
    [] f = "respiratoryRate" -> respiratoryRateKeys
    [] f = "temperature" -> temperatureKeys

\* C4: every coerced field of a normalized day is a finite number or absent,
\* and it is absent exactly when no candidate key resolved or the resolved
\* value failed numeric coercion; not-a-number never appears.
C4_FiniteOrAbsent ==
  Ok =>
    \A i \in 1..Len(entries) : \A f \in CoercedFields :
      LET v == rendered.processed[i][f]
          raw == getMetric(OrEmpty(entries[i].metrics), KeysOf(f))
      IN  /\ v = Null \/ (v.t = "number" /\ IsFinite(v.n))
          /\ v = Null <=> (~NotNullish(raw) \/ IsNaN(Number(raw)))

\* sum of the sleep hours of days lo..hi, an absent value counting as 0
RECURSIVE WindowSleep(_, _, _)
WindowSleep(p, lo, hi) ==
  IF lo > hi THEN Int2Num(0)
  ELSE NAdd(IF p[lo].sleepHours = Null THEN Int2Num(0) ELSE p[lo].sleepHours.n,
            WindowSleep(p, lo + 1, hi))

\* max(0, a)
Max0(a) == IF NGt(a, Int2Num(0)) THEN a ELSE Int2Num(0)

\* C5: the sleep debt is absent for fewer than 7 normalized days; otherwise
\* it is max(0, 52.5 - sum of the sleep hours of the last 7 days, absent
\* counting as 0), it is never negative, and days before the last 7 do not
\* change it.
C5_SleepDebt ==
  Ok =>
    LET r == rendered
        n == Len(r.processed)
    IN  IF n < 7 THEN r.sleepDebtHours = Null
        ELSE /\ r.sleepDebtHours
                  = NumV(Max0(NSub(Fin(105, 2), WindowSleep(r.processed, n - 6, n))))
             /\ ~NLt(r.sleepDebtHours.n, Int2Num(0))
             /\ r.sleepDebtHours
                  = Home(SubSeq(entries, n - 6, n), loading).sleepDebtHours

\* eight days, the first a short night outside the window; the last seven sum
\* to 50 hours, a debt of 2.5
C5_Witness ==
  /\ Ok /\ pc = "done" /\ Len(entries) = 8
  /\ rendered.processed[1].sleepHours = N(5)
  /\ rendered.sleepDebtHours = R(5, 2)

\* 1 when the condition holds, else 0
Step(cond) == IF cond THEN 1 ELSE 0

\* C6: the target sleep is absent exactly when the recovery score is; when
\* defined it is 8 plus 0.5 for each of: score < 80, exertion present and
\* > 120, sleep debt present and > 3; so it is one of 8, 8.5, 9, 9.5.
C6_TargetSleep ==
  Ok =>
    LET r == rendered
        halves ==
          Step(NLt(r.recoveryScore.n, Int2Num(80)))
          + Step(r.exertionScore # Null /\ NGt(r.exertionScore.n, Int2Num(120)))
          + Step(r.sleepDebtHours # Null /\ NGt(r.sleepDebtHours.n, Int2Num(3)))
    IN  /\ r.targetSleep = Null <=> r.recoveryScore = Null
        /\ r.targetSleep # Null =>
             /\ r.targetSleep = R(16 + halves, 2)
             /\ r.targetSleep \in {N(8), R(17, 2), N(9), R(19, 2)}

\* all three conditions hold: 9.5 hours
C6_Witness ==
  /\ Ok /\ pc = "done"
  /\ NLt(rendered.recoveryScore.n, Int2Num(80))
  /\ NGt(rendered.exertionScore.n, Int2Num(120))
  /\ NGt(rendered.sleepDebtHours.n, Int2Num(3))
  /\ rendered.targetSleep = R(19, 2)

\* C7: the target zone classifies the recovery score: High from 90 up,
\* Moderate from 70 up to but not including 90, Low below 70, exactly one of
\* them whenever the score is there, and absent exactly when the score is.
C7_TargetZone ==
  Ok =>
    LET r == rendered
        score == r.recoveryScore
    IN  /\ r.targetZone = Null <=> score = Null
        /\ score # Null => r.targetZone \in {StrV("High"), StrV("Moderate"), StrV("Low")}
        /\ score # Null /\ NGe(score.n, Int2Num(90)) => r.targetZone = StrV("High")
        /\ score # Null /\ NGe(score.n, Int2Num(70)) /\ NLt(score.n, Int2Num(90))
             => r.targetZone = StrV("Moderate")
        /\ score # Null /\ NLt(score.n, Int2Num(70)) => r.targetZone = StrV("Low")

\* a score of exactly 90 is High
C7_Witness ==
  /\ Ok /\ pc = "done"
  /\ rendered.recoveryScore = N(90)
  /\ rendered.targetZone = StrV("High")

\* the finite values a metric takes over the normalized days
FiniteValues(p, f) ==
  SelectSeq([i \in 1..Len(p) |-> p[i][f]],
            LAMBDA v : v.t = "number" /\ IsFinite(v.n))

RECURSIVE SumFront(_)
SumFront(values) ==
  IF values = <<>> THEN Int2Num(0) ELSE NAdd(Head(values).n, SumFront(Tail(values)))

MeanOfFinite(p, f) ==
  IF FiniteValues(p, f) = <<>> THEN Null
  ELSE NumV(NDiv(SumFront(FiniteValues(p, f)), Int2Num(Len(FiniteValues(p, f)))))

Reverse(seq) == [i \in 1..Len(seq) |-> seq[Len(seq) + 1 - i]]

\* C8: a baseline is the mean of exactly the finite values of its metric,
\* absent when there is none, and the same for the reversed history.
C8_BaselineOfFinite ==
  Ok =>
    LET r == rendered
        back == Home(Reverse(entries), loading)
    IN  /\ r.baselineHRV = MeanOfFinite(r.processed, "hrv")
        /\ r.baselineRHR = MeanOfFinite(r.processed, "rhr")
        /\ r.baselineLoad = MeanOfFinite(r.processed, "trainingLoad")
        /\ back.baselineHRV = r.baselineHRV
        /\ back.baselineRHR = r.baselineRHR
        /\ back.baselineLoad = r.baselineLoad

\* positions of the candidate keys whose value is neither null nor undefined
Hits(obj, keys) == {i \in 1..Len(keys) : NotNullish(Get(obj, keys[i]))}

\* C9: getMetric returns, unchanged, the value of the first candidate key
\* whose value is neither null nor undefined, and null when there is none; a
\* falsy value counts as present.
C9_FirstPresentKey ==
  pc = "return" =>
    IF Hits(arg.obj, arg.keys) = {} THEN result = Null
    ELSE \E i \in Hits(arg.obj, arg.keys) :
           /\ \A j \in Hits(arg.obj, arg.keys) : i <= j
           /\ result = Get(arg.obj, arg.keys[i])

\* the first key holds 0 and a later key holds 55: 0 is returned
C9_Witness ==
  /\ pc = "return" /\ Len(arg.keys) = 2
  /\ Get(arg.obj, arg.keys[1]) = N(0)
  /\ Get(arg.obj, arg.keys[2]) = N(55)
  /\ result = N(0)

\* C10: the derivation never raises, whatever the fetched records hold.
C10_NeverRaises == rendered.status = "ok"

(***************************************************************************)
(* Properties of the ingest route                                          *)
(***************************************************************************)
\* the Authorization header is 'Bearer <t>', t non-empty and equal to the
\* configured HAE_TOKEN
CredentialOk ==
  /\ arg.req.authorization.t = "string"
  /\ arg.env.HAE_TOKEN.t = "string"
  /\ arg.env.HAE_TOKEN.s # ""
  /\ arg.req.authorization.s = "Bearer " \o arg.env.HAE_TOKEN.s

\* the body carries the field with a value other than null
HasField(key) ==
  /\ arg.req.body.t = "object"
  /\ \E i \in 1..Len(arg.req.body.o) :
       arg.req.body.o[i].key = key /\ NotNullish(arg.req.body.o[i].val)

\* the body carries the field with a value JavaScript takes as true
HasUsableField(key) ==
  /\ arg.req.body.t = "object"
  /\ \E i \in 1..Len(arg.req.body.o) :
       arg.req.body.o[i].key = key /\ FieldTruthy(arg.req.body.o[i].val)

Accepted ==
  /\ arg.req.method = "POST"
  /\ CredentialOk
  /\ HasUsableField("metrics") \/ HasUsableField("workouts")

RefusalStatus ==
  IF arg.req.method # "POST" THEN 405
  ELSE IF ~CredentialOk THEN 401
  ELSE 400

\* C11: an insert is attempted only for a POST with the right bearer token
\* whose body has metrics or workouts; a request that is not such a POST is
\* answered 405, 401 or 400, in that order of checks, hands nothing to the
\* store and leaves the table as it was.
C11_IngestGate ==
  [][pc' = "answered" =>
       /\ result'.handed # <<>> => Accepted
       /\ ~(/\ arg.req.method = "POST"
            /\ CredentialOk
            /\ HasField("metrics") \/ HasField("workouts")) =>
            /\ result'.status = RefusalStatus
            /\ result'.handed = <<>>
            /\ store' = store
       /\ ~Accepted => result'.status \in {405, 401, 400} /\ store' = store]_vars

\* a POST with metrics whose header is 'Bearer ' while HAE_TOKEN is the
\* empty string was answered 401 and the table still holds its one row
C11_Witness ==
  /\ pc = "answered"
  /\ arg.req.method = "POST"
  /\ arg.req.authorization = StrV("Bearer ")
  /\ arg.env.HAE_TOKEN = StrV("")
  /\ HasUsableField("metrics")
  /\ getSupabaseClient(arg.env) = "client"
  /\ arg.db = "ok"
  /\ result.status = 401
  /\ store = <<Stored>>


\* the value the handed row keeps for a top-level field of the body
Kept(row, key) ==
  CASE key = "metrics" -> row.metrics
    [] key = "workouts" -> row.workouts
    [] OTHER -> Get(row.payload.o, key)

\* C12: the row handed to the store carries the server's timestamp and every
\* top-level field of the request body with the value the body gave it.
C12_StoredVerbatim ==
  (pc = "answered" /\ result.handed # <<>>) =>
    /\ result.handed[1].ingest_date = IngestDate
    /\ \A i \in 1..Len(arg.req.body.o) :
         Kept(result.handed[1], arg.req.body.o[i].key) = arg.req.body.o[i].val


Configured == getSupabaseClient(arg.env) = "client"

\* C15: an authorized POST whose body has metrics or workouts is answered
\* 200 {success: true} unless the insert throws, which gives 500; nothing is
\* handed to the store when none is configured, and the table gains the row
\* only when a store is configured and the insert succeeds.  No request is
\* answered 500 for any other reason.
C15_SuccessWithoutPersistence ==
  [][pc' = "answered" =>
       /\ Accepted =>
            /\ result'.status = IF Configured /\ arg.db = "throws" THEN 500 ELSE 200
            /\ result'.status = 200 => result'.json = "success"
            /\ ~Configured => result'.handed = <<>>
            /\ Configured => result'.handed = <<record(arg.req, IngestDate)>>
            /\ store' = IF Configured /\ arg.db = "ok"
                        THEN Append(store, record(arg.req, IngestDate))
                        ELSE store
       /\ result'.status = 500 => Accepted /\ Configured /\ arg.db = "throws"]_vars

\* an accepted request whose insert returned an error was answered 200 with
\* success, and the table holds only the row it held before
C15_Witness ==
  /\ pc = "answered"
  /\ Accepted
  /\ Configured
  /\ arg.db = "error"
  /\ result.status = 200
  /\ result.json = "success"
  /\ result.handed # <<>>
  /\ store = <<Stored>>


(***************************************************************************)
(* Properties of the timeseries route                                      *)
(***************************************************************************)
\* the whole value is an integer followed by one of d, w, m, y
WindowSyntax(s) ==
  /\ DigitRun(s, 1) >= 1
  /\ DigitRun(s, 1) + 1 = Len(s)
  /\ CharAt(s, Len(s)) \in Units

\* a GET that reached a configured store whose query succeeded
Served ==
  /\ pc = "answered"
  /\ arg.req.method = "GET"
  /\ Configured
  /\ arg.db = "ok"

\* C13: a range string that is not an integer followed by d, w, m or y
\* yields no filter: the answer is 200 with every stored row; a window is
\* applied only for a value of that form, and a missing range is answered
\* as 60d is.
C13_WindowOnlyForSyntax ==
  Served =>
    /\ (arg.req.range.t = "string" /\ ~WindowSyntax(arg.req.range.s)
          /\ arg.req.range.s # "") =>
         result.status = 200 /\ result.data = query(store, Null)
    /\ arg.req.range.t = "array" =>
         result.status = 200 /\ result.data = query(store, Null)
    /\ arg.req.range = Undefined =>
         /\ result.status = 200
         /\ result.data = query(store, [t |-> "date", day |-> arg.now - 60])

\* C14: with SUPABASE_URL or SUPABASE_SERVICE_ROLE unset, every GET is
\* answered 200 with an empty data array, and the table is not queried.
C14_EmptyWithoutStore ==
  (pc = "answered" /\ arg.req.method = "GET" /\ ~Configured) =>
    /\ result.status = 200
    /\ result.json = "data"
    /\ result.data = <<>>
    /\ ~result.queried


(***************************************************************************)
(* Properties of the dashboard: summary against trend, fetch lifecycle     *)
(***************************************************************************)
\* the summary score is absent exactly when the trend entry is, and is
\* otherwise the trend entry rounded
Agree(score, entry) ==
  /\ entry = Null <=> score = Null
  /\ entry # Null => score = NumV(MathRound(entry.n))

\* C16: for a non-empty history the recovery score is the rounded last entry
\* of the recovery trend, and absent exactly when that entry is absent; the
\* exertion score and the exertion trend agree in the same way.
C16_ScoreIsLastTrendEntry ==
  (Ok /\ Len(Days) > 0) =>
    /\ Len(rendered.recoveryTrend) = Len(Days)
    /\ Len(rendered.exertionTrend) = Len(Days)
    /\ Agree(rendered.recoveryScore, rendered.recoveryTrend[Len(Days)])
    /\ Agree(rendered.exertionScore, rendered.exertionTrend[Len(Days)])

\* a two-day history whose trends differ between the days and whose scores
\* are both there
C16_Witness ==
  /\ Ok /\ pc = "done"
  /\ Len(Days) = 2
  /\ rendered.recoveryScore # Null
  /\ rendered.exertionScore # Null
  /\ rendered.recoveryTrend[1] \notin {Null, rendered.recoveryTrend[2]}
  /\ rendered.exertionTrend[1] \notin {Null, rendered.exertionTrend[2]}
  /\ rendered.recoveryTrend[2].n # MathRound(rendered.recoveryTrend[2].n)


\* nothing is shown for want of data: no score, and empty trends
NothingDerived ==
  /\ Ok
  /\ rendered.processed = <<>>
  /\ rendered.recoveryScore = Null
  /\ rendered.exertionScore = Null
  /\ rendered.labels = <<>>
  /\ rendered.recoveryTrend = <<>>
  /\ rendered.exertionTrend = <<>>

\* C17: the component starts loading with no entries and one fetch under
\* way; however the fetch ends, loading becomes false and stays false;
\* entries changes at most once, and only when the fetch brought data; after
\* a failed fetch or an answer without data, entries is empty and nothing
\* is derived from it.
C17_FetchSettles ==
  /\ loading = TRUE /\ entries = <<>> /\ pc = "fetching" /\ outcome = "pending"
  /\ <>[](loading = FALSE)
  /\ [][loading = FALSE => loading' = FALSE]_vars
  /\ [][outcome' # outcome => outcome = "pending"]_vars
  /\ [][entries' # entries => outcome = "pending" /\ outcome' = "data"]_vars
  /\ [](outcome \in {"failed", "nodata"} => entries = <<>> /\ NothingDerived)

\* the fetch failed, the finally block has run: not loading, no entries
C17_Witness ==
  /\ pc = "done"
  /\ outcome = "failed"
  /\ loading = FALSE
  /\ entries = <<>>
  /\ NothingDerived


====
